---------------------------- MODULE Spec2Model ----------------------------
(***************************************************************************)
(* Model of the log query engine of libcloudforensics                       *)
(* (providers/gcp/internal/log.py, class GoogleCloudLog) and of the        *)
(* QueryLogs command of tools/gcp_cli.py.                                  *)
(*                                                                         *)
(* ExecuteQuery is a Python generator: nothing of its body runs before the *)
(* consumer's first next(), and it runs only between a next() and the      *)
(* following yield, return or exception.  The model keeps the generator's  *)
(* position (genPc) and locals (project_ids, x, page, idx), the instance   *)
(* attributes, and logs of what crossed the network boundary.              *)
(***************************************************************************)
EXTENDS Integers, Sequences, FiniteSets, TLC

VARIABLES
  project_id,       \* self.project_id
  search_all,       \* self.search_all
  gcl_api_client,   \* self.gcl_api_client: FALSE is None, TRUE a created handle
  projects,         \* self.projects
  discovery,        \* what the platform's project listing returns
  genPc,            \* "none" | "created" | "fetch" | "suspended" | "done" | "error" | "closed"
  qfilter,          \* ExecuteQuery's argument
  project_ids,      \* ExecuteQuery local
  x,                \* ExecuteQuery loop variable
  page,             \* the response the inner loops are iterating
  pageNo,           \* pages of the current batch fetched so far
  idx,              \* entries of page already yielded
  pulls,            \* next() calls made by the consumer
  output,           \* the entries the consumer received, in order
  batches,          \* bodies handed to common.ExecuteRequest, in order
  fetches,          \* page requests sent, each with its outcome
  discoveries,      \* who ran scope discovery, in order
  cliPc,            \* QueryLogs: "none" | "called" | "SystemExit" | "ValueError" | "loop"
  args,             \* QueryLogs: args.start, args.end, args.filter
  cliFilter,        \* QueryLogs local qfilter
  outFile,          \* the records appended to the output file
  reported,         \* "Saved logs to: ..." was logged
  listPc,           \* ListLogs: "none" | "returned"
  logRequests,      \* ListLogs: the logs list requests sent, each with its pages
  logs,             \* ListLogs: the list returned
  created,          \* how many times GclApi created the client
  gens,             \* two invocations of ExecuteQuery on the instance: their locals
  traces            \* what happened to each of the two, in order

vars == <<project_id, search_all, gcl_api_client, projects, discovery, genPc,
          qfilter, project_ids, x, page, pageNo, idx, pulls, output, batches,
          fetches, discoveries, cliPc, args, cliFilter, outFile, reported,
          listPc, logRequests, logs, created, gens, traces>>

libVars == <<genPc, qfilter, project_ids, x, page, pageNo, idx, pulls, output,
             batches, fetches>>

cliVars == <<cliPc, args, cliFilter, outFile, reported>>

listVars == <<listPc, logRequests, logs>>

twoVars == <<gens, traces>>

-----------------------------------------------------------------------------
(* Bounds of the model *)

MaxProjects == 101      \* largest discovery result
MaxContinuations == 1   \* responses of one run that carry a continuation token
MaxEntries == 3         \* entries on one page
MaxListed == 3          \* largest discovery result where ListLogs is called

(* Program constant: the batch size of ExecuteQuery *)
BatchSize == 50

-----------------------------------------------------------------------------
(* Python helpers *)

\* dict.get(k, default)
Get(d, k, default) == IF k \in DOMAIN d THEN d[k] ELSE default

Min(a, b) == IF a < b THEN a ELSE b

\* s[a:b] for 0 <= a
Slice(s, a, b) == SubSeq(s, a + 1, Min(b, Len(s)))

\* 'projects/{}'.format(id)
ResourceName(id) == <<"projects", id>>

-----------------------------------------------------------------------------
(* The platform: discovery results *)

\* lifecycle states a listed project can carry ("None": the key is absent)
Inactive(i) == CASE i % 3 = 0 -> "DELETE_REQUESTED"
                 [] i % 3 = 1 -> "active"
                 [] OTHER     -> "None"

\* pattern 0: every project ACTIVE; pattern k > 0: every k-th project is not
Lifecycle(i, pat) == IF pat > 0 /\ i % pat = 0 THEN Inactive(i) ELSE "ACTIVE"

Project(i, pat) ==
  IF Lifecycle(i, pat) = "None"
    THEN [projectId |-> i]
    ELSE [projectId |-> i, lifecycleState |-> Lifecycle(i, pat)]

LifecyclePatterns == 0..2

ProjectCounts == {0, 1, BatchSize, BatchSize + 1, 2 * BatchSize, MaxProjects}

DiscoveryResults ==
  { [i \in 1..n |-> Project(i, pat)] : n \in ProjectCounts, pat \in LifecyclePatterns }

\* the short discovery results
SmallDiscoveryResults ==
  { [i \in 1..n |-> Project(i, pat)] : n \in 0..MaxListed, pat \in LifecyclePatterns }

ProjectIdArgs == {1}

QFilters == {"severity=ERROR"}


NoPage == [k \in {} |-> 0]

\* the entries the platform puts on page p of batch b
Entries(b, p, n) == [i \in 1..n |-> <<b, p, i>>]

\* a page response: 'entries' may be absent (n < 0), so may 'nextPageToken'
Response(b, p, n, tok) ==
  (IF n >= 0 THEN [entries |-> Entries(b, p, n)] ELSE NoPage)
    @@ (IF tok THEN [nextPageToken |-> p] ELSE NoPage)

\* the responses so far that carried a continuation token
Continued(log) ==
  Cardinality({i \in DOMAIN log : "nextPageToken" \in DOMAIN log[i].response})

\* page sizes: 'entries' absent (-1), empty, one entry, and the largest two
PageSizes == {-1, 0, 1, MaxEntries - 1, MaxEntries}

PageResponses(b, p, log) ==
  { Response(b, p, n, tok) :
      n \in PageSizes,
      tok \in {t \in BOOLEAN : t => Continued(log) < MaxContinuations} }

-----------------------------------------------------------------------------
(* common.ExecuteRequest: a lazy sequence of page responses that follows   *)
(* the continuation token; a page is requested when the consumer of the    *)
(* sequence asks for it.                                                   *)

\* is there another page to request after n pages, the last being `last`
ExecuteRequestMore(n, last) == n = 0 \/ "nextPageToken" \in DOMAIN last

-----------------------------------------------------------------------------
(* GoogleCloudLog *)

\* GclApi: the handle is created on first use, and creating it clears the
\* cached project list
\* variant: a handle is created on every call
GclApiAlwaysCreates(client, projs) ==
  [client |-> TRUE, projects |-> << >>, made |-> TRUE]

GclApi(client, projs) ==
  IF client THEN [client |-> client, projects |-> projs, made |-> FALSE]
            ELSE [client |-> TRUE, projects |-> << >>, made |-> TRUE]

\* variant: only projects marked for deletion are left out
IsActiveUnlessDeleted(p) == Get(p, "lifecycleState", "None") # "DELETE_REQUESTED"

\* the test of ExecuteQuery's loop over self.projects
IsActive(p) == Get(p, "lifecycleState", "None") = "ACTIVE"

\* variant: a cached project list is used whatever search_all says
ResolveProjectIdsFromCache(sa, projs, pid) ==
  IF sa \/ projs # << >>
    THEN LET sel == SelectSeq(projs, IsActive)
         IN  [i \in 1..Len(sel) |-> ResourceName(sel[i].projectId)]
    ELSE <<ResourceName(pid)>>

\* ExecuteQuery, up to the batch loop: the scope identifiers to query
ResolveProjectIds(sa, projs, pid) ==
  IF sa
    THEN LET sel == SelectSeq(projs, IsActive)
         IN  [i \in 1..Len(sel) |-> ResourceName(sel[i].projectId)]
    ELSE <<ResourceName(pid)>>

\* variant: range(0, len(project_ids) + 1, 50)
LoopContinuesInclusive(xv, n) == xv <= n

\* range(0, len(project_ids), 50): is x still in the range
LoopContinues(xv, n) == xv < n

\* variant: the slice is one identifier short, project_ids[x:x+49]
BodyShortSlice(ids, xv, qf) ==
  [resourceNames |-> Slice(ids, xv, xv + BatchSize - 1),
   filter |-> qf,
   orderBy |-> "timestamp desc"]

\* the request body of the batch starting at x
Body(ids, xv, qf) ==
  [resourceNames |-> Slice(ids, xv, xv + BatchSize),
   filter |-> qf,
   orderBy |-> "timestamp desc"]

\* variant: the last entry of every page is left out
PageEntriesButLast(response) ==
  LET e == Get(response, "entries", << >>) IN SubSeq(e, 1, Len(e) - 1)

\* response.get('entries', [])
PageEntries(response) == Get(response, "entries", << >>)

\* variant: the generator goes on to the next request without being asked
PcAfterYieldEager == "fetch"

\* where the generator is after `yield entry`: suspended until the next next()
PcAfterYield == "suspended"

\* variant: the failed request is sent again
PcAfterFailureRetry == "fetch"

\* where the generator is after a request raised: ExecuteQuery has no handler
PcAfterFailure == "error"

\* the generator's state, as one record
Gen ==
  [pc |-> genPc, project_ids |-> project_ids, x |-> x, page |-> page,
   pageNo |-> pageNo, idx |-> idx, output |-> output, batches |-> batches,
   client |-> gcl_api_client, projects |-> projects, qfilter |-> qfilter,
   created |-> created]

\* the head of the batch loop: build the body, get the client, call
\* ExecuteRequest; or leave the loop and return
EnterBatch(st) ==
  IF LoopContinues(st.x, Len(st.project_ids))
    THEN LET api == GclApi(st.client, st.projects)
         IN  [st EXCEPT !.batches = Append(@, Body(st.project_ids, st.x, st.qfilter)),
                        !.client = api.client,
                        !.created = IF api.made THEN @ + 1 ELSE @,
                        !.projects = api.projects,
                        !.page = NoPage, !.pageNo = 0, !.idx = 0,
                        !.pc = "fetch"]
    ELSE [st EXCEPT !.pc = "done"]

\* the body from its top to the first page request: resolve the scopes,
\* running discovery when search_all is set and nothing is cached
Begin(st) ==
  LET listed == search_all /\ st.projects = << >>
      projs == IF listed THEN discovery ELSE st.projects
      ids == ResolveProjectIds(search_all, projs, project_id)
  IN  EnterBatch([st EXCEPT !.project_ids = ids, !.x = 0, !.projects = projs])

\* the generator runs from where it is to its next yield, page request or return
Run(st) ==
  IF st.idx < Len(PageEntries(st.page))
    THEN [st EXCEPT !.output = Append(@, PageEntries(st.page)[st.idx + 1]),
                    !.idx = @ + 1,
                    !.pc = PcAfterYield]
    ELSE IF ExecuteRequestMore(st.pageNo, st.page)
      THEN [st EXCEPT !.pc = "fetch"]
      ELSE EnterBatch([st EXCEPT !.x = @ + BatchSize])

Install(st) ==
  /\ genPc' = st.pc
  /\ project_ids' = st.project_ids
  /\ x' = st.x
  /\ page' = st.page
  /\ pageNo' = st.pageNo
  /\ idx' = st.idx
  /\ output' = st.output
  /\ batches' = st.batches
  /\ gcl_api_client' = st.client
  /\ projects' = st.projects
  /\ created' = st.created

-----------------------------------------------------------------------------
(* Strings of the command line are sequences of characters *)

Digits == <<"0", "1", "2", "3", "4", "5", "6", "7", "8", "9">>

IsDigit(c) == \E i \in DOMAIN Digits : Digits[i] = c

DigitValue(c) == (CHOOSE i \in DOMAIN Digits : Digits[i] = c) - 1

TsStart == <<"2", "0", "2", "1", "-", "0", "1", "-", "0", "1", "T", "0", "0", ":", "0", "0", ":", "0", "0", "Z">>
TsEnd == <<"2", "0", "2", "1", "-", "0", "1", "-", "0", "2", "T", "0", "0", ":", "0", "0", ":", "0", "0", "Z">>
TsBadMonth == <<"2", "0", "2", "1", "-", "1", "3", "-", "4", "0">>
TsUnpadded == <<"2", "0", "2", "1", "-", "1", "-", "1", "T", "0", ":", "0", ":", "0", "Z">>
TsLower == <<"2", "0", "2", "1", "-", "0", "1", "-", "0", "1", "t", "0", "0", ":", "0", "0", ":", "0", "0", "z">>
TsBadDay == <<"2", "0", "2", "1", "-", "0", "2", "-", "3", "0", "T", "0", "0", ":", "0", "0", ":", "0", "0", "Z">>
TsLeapDay == <<"2", "0", "2", "0", "-", "0", "2", "-", "2", "9", "T", "2", "3", ":", "5", "9", ":", "5", "9", "Z">>
TsTrailing == <<"2", "0", "2", "1", "-", "0", "1", "-", "0", "2", "T", "0", "0", ":", "0", "0", ":", "0", "0", "Z", " ">>
TsSecond60 == <<"2", "0", "2", "1", "-", "0", "1", "-", "0", "1", "T", "0", "0", ":", "0", "0", ":", "6", "0", "Z">>

Timestamps == {TsStart, TsEnd, TsBadMonth, TsUnpadded, TsLower, TsBadDay,
               TsLeapDay, TsTrailing, TsSecond60}

FilterSeverity == <<"s", "e", "v", "e", "r", "i", "t", "y", "=", "E", "R", "R", "O", "R">>
FilterTwoTerms == <<"a", "=", "1", " ", "b", "=", "2">>

\* an argument that is not given is the empty string
QueryArgs ==
  [start : Timestamps \cup {<< >>},
   end : Timestamps \cup {<< >>},
   filter : {<< >>, FilterSeverity, FilterTwoTerms}]

-----------------------------------------------------------------------------
(* datetime.strptime(s, '%Y-%m-%dT%H:%M:%SZ')                              *)
(* The format is compiled to a regular expression matched from the start   *)
(* of s, ignoring case: %Y is four digits, the other directives are one or *)
(* two digits in the ranges below, alternatives tried in order.            *)

TimeFormat == <<"Y", "-", "m", "-", "d", "T", "H", ":", "M", ":", "S", "Z">>

IsDirective(f) == f \in {"Y", "m", "d", "H", "M", "S"}

\* re.IGNORECASE, for the letters the format holds
Fold(c) == CASE c = "t" -> "T" [] c = "z" -> "Z" [] OTHER -> c

\* the two-digit alternatives of a directive: does the value v of "ab" match
TwoDigit(f, a, v) ==
  CASE f = "m" -> v \in 10..12 \/ (a = 0 /\ v \in 1..9)
    [] f = "d" -> v \in 10..31 \/ (a = 0 /\ v \in 1..9)
    [] f = "H" -> v \in 0..23
    [] f = "M" -> v \in 0..59
    [] f = "S" -> v \in 0..61
    [] OTHER   -> FALSE

\* the one-digit alternative
OneDigit(f, v) ==
  CASE f \in {"m", "d"} -> v \in 1..9
    [] f \in {"H", "M", "S"} -> v \in 0..9
    [] OTHER -> FALSE

NoMatch == [ok |-> FALSE]

RECURSIVE Match(_, _, _, _)
\* match format items k.. against s from position p (1-based); vals collects
\* the directive values
Match(k, s, p, vals) ==
  IF k > Len(TimeFormat) THEN [ok |-> TRUE, end |-> p - 1, vals |-> vals]
  ELSE LET f == TimeFormat[k] IN
    IF ~IsDirective(f)
      THEN IF p <= Len(s) /\ Fold(s[p]) = f
             THEN Match(k + 1, s, p + 1, vals)
             ELSE NoMatch
    ELSE IF f = "Y"
      THEN IF p + 3 <= Len(s) /\ \A i \in p..(p + 3) : IsDigit(s[i])
             THEN Match(k + 1, s, p + 4,
                        vals @@ (f :> 1000 * DigitValue(s[p]) + 100 * DigitValue(s[p + 1])
                                      + 10 * DigitValue(s[p + 2]) + DigitValue(s[p + 3])))
             ELSE NoMatch
    ELSE
      LET two == IF p + 1 <= Len(s) /\ IsDigit(s[p]) /\ IsDigit(s[p + 1])
                      /\ TwoDigit(f, DigitValue(s[p]),
                                  10 * DigitValue(s[p]) + DigitValue(s[p + 1]))
                   THEN Match(k + 1, s, p + 2,
                              vals @@ (f :> 10 * DigitValue(s[p]) + DigitValue(s[p + 1])))
                   ELSE NoMatch
          one == IF p <= Len(s) /\ IsDigit(s[p]) /\ OneDigit(f, DigitValue(s[p]))
                   THEN Match(k + 1, s, p + 1, vals @@ (f :> DigitValue(s[p])))
                   ELSE NoMatch
          spaced == IF f = "d" /\ p + 1 <= Len(s) /\ s[p] = " " /\ IsDigit(s[p + 1])
                         /\ OneDigit(f, DigitValue(s[p + 1]))
                      THEN Match(k + 1, s, p + 2, vals @@ (f :> DigitValue(s[p + 1])))
                      ELSE NoMatch
      IN  IF two.ok THEN two ELSE IF one.ok THEN one ELSE spaced

IsLeap(y) == y % 4 = 0 /\ (y % 100 # 0 \/ y % 400 = 0)

DaysInMonth(y, m) ==
  CASE m \in {4, 6, 9, 11} -> 30
    [] m = 2 -> IF IsLeap(y) THEN 29 ELSE 28
    [] OTHER -> 31

\* the datetime constructor's range checks on the parsed fields
DatetimeOK(v) ==
  /\ v["Y"] \in 1..9999
  /\ v["m"] \in 1..12
  /\ v["d"] \in 1..DaysInMonth(v["Y"], v["m"])
  /\ v["H"] \in 0..23 /\ v["M"] \in 0..59 /\ v["S"] \in 0..59

\* TRUE when strptime returns, FALSE when it raises ValueError
Strptime(s) ==
  LET found == Match(1, s, 1, NoPage)
  IN  /\ found.ok
      /\ found.end = Len(s)
      /\ DatetimeOK(found.vals)

-----------------------------------------------------------------------------
(* QueryLogs *)

\* the try block: each bound that is given is parsed
Validated(a) ==
  /\ (a.start # << >> => Strptime(a.start))
  /\ (a.end # << >> => Strptime(a.end))

StrTimestampGe == <<"t", "i", "m", "e", "s", "t", "a", "m", "p", ">", "=", "\"">>
StrTimestampLe == <<"t", "i", "m", "e", "s", "t", "a", "m", "p", "<", "=", "\"">>
StrQuoteSpace == <<"\"", " ">>
StrAnd == <<"A", "N", "D", " ">>

\* variant: the first AND is added whenever a start is given
AssembleFilterAndAfterStart(a) ==
  LET q1 == IF a.start # << >>
              THEN StrTimestampGe \o a.start \o StrQuoteSpace ELSE << >>
      q2 == IF a.start # << >> THEN q1 \o StrAnd ELSE q1
      q3 == IF a.end # << >>
              THEN q2 \o StrTimestampLe \o a.end \o StrQuoteSpace ELSE q2
  IN  IF a.filter # << >> /\ (a.start # << >> \/ a.end # << >>)
        THEN q3 \o StrAnd \o a.filter
        ELSE IF a.filter # << >> THEN q3 \o a.filter ELSE q3

\* qfilter as QueryLogs concatenates it
AssembleFilter(a) ==
  LET q1 == IF a.start # << >>
              THEN StrTimestampGe \o a.start \o StrQuoteSpace ELSE << >>
      q2 == IF a.start # << >> /\ a.end # << >> THEN q1 \o StrAnd ELSE q1
      q3 == IF a.end # << >>
              THEN q2 \o StrTimestampLe \o a.end \o StrQuoteSpace ELSE q2
  IN  IF a.filter # << >> /\ (a.start # << >> \/ a.end # << >>)
        THEN q3 \o StrAnd \o a.filter
        ELSE IF a.filter # << >> THEN q3 \o a.filter ELSE q3

\* the type of datetime.utcnow().timestamp()
TimestampType == "float"

\* '{0:s}'.format(v): the format code 's' is defined for str only, any other
\* type raises ValueError
FormatCodeS(type) == type = "str"

-----------------------------------------------------------------------------
(* Actions *)

\* the two invocations of ExecuteQuery that share the instance
Invocations == {"a", "b"}

\* the locals of an invocation that has not been made
NotCalled ==
  [pc |-> "none", qfilter |-> "", project_ids |-> << >>, x |-> 0, page |-> NoPage,
   pageNo |-> 0, idx |-> 0, output |-> << >>, batches |-> << >>]

\* the instance after GoogleCloudLog(project_id, key_file, search_all), on a
\* platform whose project listing is one of D
InitFrom(D) ==
  /\ project_id \in ProjectIdArgs
  /\ search_all \in BOOLEAN
  /\ gcl_api_client = FALSE
  /\ projects = << >>
  /\ discovery \in D
  /\ genPc = "none"
  /\ qfilter = ""
  /\ project_ids = << >>
  /\ x = 0
  /\ page = NoPage
  /\ pageNo = 0
  /\ idx = 0
  /\ pulls = 0
  /\ output = << >>
  /\ batches = << >>
  /\ fetches = << >>
  /\ discoveries = << >>
  /\ cliPc = "none"
  /\ args = [start |-> << >>, end |-> << >>, filter |-> << >>]
  /\ cliFilter = << >>
  /\ outFile = << >>
  /\ reported = FALSE
  /\ listPc = "none"
  /\ logRequests = << >>
  /\ logs = << >>
  /\ created = 0
  /\ gens = [i \in Invocations |-> NotCalled]
  /\ traces = [i \in Invocations |-> << >>]

Init == InitFrom(DiscoveryResults)

\* the caller runs logs.ListProjects() itself
ListProjects ==
  /\ cliPc = "none"
  /\ genPc \in {"none", "created"}
  /\ discoveries = << >>
  /\ projects' = discovery
  /\ discoveries' = Append(discoveries, "caller")
  /\ UNCHANGED <<project_id, search_all, gcl_api_client, discovery, genPc, qfilter,
                 project_ids, x, page, pageNo, idx, pulls, output, batches, fetches,
                 cliPc, args, cliFilter, outFile, reported, listVars, twoVars,
                 created>>

\* logs.ExecuteQuery(qfilter): the generator object is made, none of its body runs
CallExecuteQuery ==
  /\ cliPc = "none"
  /\ genPc = "none"
  /\ genPc' = "created"
  /\ qfilter' \in QFilters
  /\ UNCHANGED <<project_id, search_all, gcl_api_client, projects, discovery,
                 project_ids, x, page, pageNo, idx, pulls, output, batches,
                 fetches, discoveries, cliPc, args, cliFilter, outFile, reported,
                 listVars, twoVars,
                 created>>

\* the first next(): the body runs from its top to the first page request
PullFirst ==
  /\ genPc = "created"
  /\ discoveries' = IF search_all /\ projects = << >>
                      THEN Append(discoveries, "ExecuteQuery")
                      ELSE discoveries
  /\ Install(Begin(Gen))
  /\ pulls' = pulls + 1
  /\ UNCHANGED <<project_id, search_all, discovery, qfilter, fetches, cliVars,
                 listVars, twoVars>>

\* a later next(): the body resumes after the yield
PullNext ==
  /\ genPc = "suspended"
  /\ Install(Run(Gen))
  /\ pulls' = pulls + 1
  /\ UNCHANGED <<project_id, search_all, discovery, qfilter, fetches, discoveries,
                 cliVars, listVars, twoVars>>

\* the page request is answered with a page
FetchPage ==
  /\ genPc = "fetch"
  /\ \E r \in PageResponses(Len(batches), pageNo + 1, fetches) :
       /\ fetches' = Append(fetches, [batch |-> Len(batches), page |-> pageNo + 1,
                                      ok |-> TRUE, response |-> r])
       /\ Install(Run([Gen EXCEPT !.page = r, !.pageNo = @ + 1, !.idx = 0]))
  /\ UNCHANGED <<project_id, search_all, discovery, qfilter, pulls, discoveries,
                 cliVars, listVars, twoVars>>

\* the page request fails: the exception leaves ExecuteQuery
FetchFails ==
  /\ genPc = "fetch"
  /\ fetches' = Append(fetches, [batch |-> Len(batches), page |-> pageNo + 1,
                                 ok |-> FALSE, response |-> NoPage])
  /\ genPc' = PcAfterFailure
  /\ UNCHANGED <<project_id, search_all, gcl_api_client, projects, discovery,
                 qfilter, project_ids, x, page, pageNo, idx, pulls, output,
                 batches, discoveries, cliVars, listVars, twoVars,
                 created>>

\* the consumer stops pulling and drops the generator
Stop ==
  /\ genPc \in {"created", "suspended"}
  /\ genPc' = "closed"
  /\ UNCHANGED <<project_id, search_all, gcl_api_client, projects, discovery,
                 qfilter, project_ids, x, page, pageNo, idx, pulls, output,
                 batches, fetches, discoveries, cliVars, listVars, twoVars,
                 created>>

-----------------------------------------------------------------------------
(* Two invocations of ExecuteQuery on one instance.  Each is a generator   *)
(* object with its own frame; self.gcl_api_client and self.projects belong *)
(* to the instance.  One thread consumes both, so a next() of one runs to  *)
(* its yield before a next() of the other starts.                          *)

\* the filter each of the two calls is made with
TwoFilters == [a |-> "severity=ERROR", b |-> "severity=INFO"]

TwoProjectCounts == {0, BatchSize + 1}

TwoLifecyclePatterns == {0, 2}

TwoDiscoveryResults ==
  { [i \in 1..n |-> Project(i, pat)] :
      n \in TwoProjectCounts, pat \in TwoLifecyclePatterns }

\* the pages the platform answers with here: 'entries' absent or of one entry;
\* continuation tokens only in the first batch of an invocation
TwoPageResponses(b, p, log) ==
  { r \in PageResponses(b, p, log) :
      /\ "entries" \in DOMAIN r => Len(r.entries) = 1
      /\ "nextPageToken" \in DOMAIN r => b = 1 }

LocalFields ==
  {"pc", "qfilter", "project_ids", "x", "page", "pageNo", "idx", "output", "batches"}

\* the frame of a generator, without the instance
Local(st) == [f \in LocalFields |-> st[f]]

\* a frame together with the attributes of the instance it runs on
OnInstance(g) ==
  g @@ [client |-> gcl_api_client, projects |-> projects, created |-> created]

\* what happens to an invocation
Event(kind, response, qf) == [kind |-> kind, response |-> response, qfilter |-> qf]

\* no other invocation is inside a next()
Idle(i) == \A j \in Invocations \ {i} : gens[j].pc # "fetch"

\* invocation i has run to st: its frame is kept, the instance is written
Put(i, st, e) ==
  /\ gens' = [gens EXCEPT ![i] = Local(st)]
  /\ traces' = [traces EXCEPT ![i] = Append(@, e)]
  /\ gcl_api_client' = st.client
  /\ projects' = st.projects
  /\ created' = st.created

\* logs.ExecuteQuery(qf), one of the two calls
CallTwo(i) ==
  /\ gens[i].pc = "none"
  /\ Put(i, [OnInstance(gens[i]) EXCEPT !.pc = "created", !.qfilter = TwoFilters[i]],
         Event("call", NoPage, TwoFilters[i]))
  /\ UNCHANGED <<project_id, search_all, discovery, discoveries, libVars, cliVars,
                 listVars>>

\* the first next() of invocation i
PullFirstTwo(i) ==
  /\ gens[i].pc = "created"
  /\ Idle(i)
  /\ discoveries' = IF search_all /\ projects = << >>
                      THEN Append(discoveries, i)
                      ELSE discoveries
  /\ Put(i, Begin(OnInstance(gens[i])), Event("pull", NoPage, ""))
  /\ UNCHANGED <<project_id, search_all, discovery, libVars, cliVars, listVars>>

\* a later next() of invocation i
PullNextTwo(i) ==
  /\ gens[i].pc = "suspended"
  /\ Idle(i)
  /\ Put(i, Run(OnInstance(gens[i])), Event("pull", NoPage, ""))
  /\ UNCHANGED <<project_id, search_all, discovery, discoveries, libVars, cliVars,
                 listVars>>

\* a page request of invocation i is answered
FetchPageTwo(i) ==
  /\ gens[i].pc = "fetch"
  /\ \E r \in TwoPageResponses(Len(gens[i].batches), gens[i].pageNo + 1, traces[i]) :
       Put(i, Run([OnInstance(gens[i]) EXCEPT !.page = r, !.pageNo = @ + 1, !.idx = 0]),
           Event("page", r, ""))
  /\ UNCHANGED <<project_id, search_all, discovery, discoveries, libVars, cliVars,
                 listVars>>

\* a page request of invocation i fails
FetchFailsTwo(i) ==
  /\ gens[i].pc = "fetch"
  /\ Put(i, [OnInstance(gens[i]) EXCEPT !.pc = PcAfterFailure], Event("fail", NoPage, ""))
  /\ UNCHANGED <<project_id, search_all, discovery, discoveries, libVars, cliVars,
                 listVars>>

\* the consumer drops invocation i
StopTwo(i) ==
  /\ gens[i].pc \in {"created", "suspended"}
  /\ Idle(i)
  /\ Put(i, [OnInstance(gens[i]) EXCEPT !.pc = "closed"], Event("stop", NoPage, ""))
  /\ UNCHANGED <<project_id, search_all, discovery, discoveries, libVars, cliVars,
                 listVars>>

-----------------------------------------------------------------------------
(* ListLogs *)

\* how the platform pages the log names of one project: one page, a page
\* without 'logNames', or two pages joined by a continuation token
LogPageShapes == {"one", "nokey", "two"}

LogNames(id, p, n) == [k \in 1..n |-> <<id, p, k>>]

LogPages(id, shape) ==
  CASE shape = "one"   -> <<[logNames |-> LogNames(id, 1, 2)]>>
    [] shape = "nokey" -> <<NoPage>>
    [] OTHER           -> <<[logNames |-> LogNames(id, 1, 1), nextPageToken |-> 1],
                            [logNames |-> LogNames(id, 2, 2)]>>

RECURSIVE CollectLogNames(_)
\* the loop over the pages of one response: entry.get('logNames', [])
CollectLogNames(pages) ==
  IF pages = << >> THEN << >>
  ELSE CollectLogNames(SubSeq(pages, 1, Len(pages) - 1))
         \o Get(pages[Len(pages)], "logNames", << >>)

RECURSIVE CollectLogs(_)
\* the loop over the responses
CollectLogs(reqs) ==
  IF reqs = << >> THEN << >>
  ELSE CollectLogs(SubSeq(reqs, 1, Len(reqs) - 1))
         \o CollectLogNames(reqs[Len(reqs)].pages)

\* the projects ListLogs sends a request for: its request loop runs over
\* self.projects, whatever search_all is, and skips those not ACTIVE
ListLogsTargets(projs) == SelectSeq(projs, IsActive)

\* logs.ListLogs(), called while no next() is running
ListLogs ==
  /\ cliPc = "none"
  /\ listPc = "none"
  /\ genPc # "fetch"
  /\ LET api == GclApi(gcl_api_client, projects)
         listed == search_all /\ api.projects = << >>
         projs == IF listed THEN discovery ELSE api.projects
         targets == ListLogsTargets(projs)
     IN  /\ gcl_api_client' = api.client
         /\ projects' = projs
         /\ discoveries' = IF listed THEN Append(discoveries, "ListLogs")
                                     ELSE discoveries
         /\ \E shape \in LogPageShapes :
              logRequests' =
                [i \in 1..Len(targets) |->
                   [parent |-> ResourceName(targets[i].projectId),
                    pages |-> LogPages(targets[i].projectId, shape)]]
         /\ logs' = CollectLogs(logRequests')
         /\ created' = IF api.made THEN created + 1 ELSE created
  /\ listPc' = "returned"
  /\ UNCHANGED <<project_id, search_all, discovery, libVars, cliVars, twoVars>>

\* the command line tool is started with the query command: main() calls
\* QueryLogs(args)
CallQueryLogs ==
  /\ cliPc = "none"
  /\ genPc = "none"
  /\ discoveries = << >>
  /\ cliPc' = "called"
  /\ args' \in QueryArgs
  /\ UNCHANGED <<project_id, search_all, gcl_api_client, projects, discovery,
                 discoveries, libVars, cliFilter, outFile, reported, listVars, twoVars,
                 created>>

\* QueryLogs(args).  sys.exit leaves at the validation; otherwise the filter
\* is assembled and the file name is formatted.  Formatting a float with
\* the code 's' raises, so control never enters the loop over
\* logs.ExecuteQuery(qfilter): "loop" is not a position QueryLogs reaches.
QueryLogs ==
  /\ cliPc = "called"
  /\ IF ~Validated(args)
       THEN /\ cliPc' = "SystemExit"
            /\ cliFilter' = cliFilter
       ELSE /\ cliFilter' = AssembleFilter(args)
            /\ cliPc' = IF FormatCodeS(TimestampType) THEN "loop" ELSE "ValueError"
  /\ UNCHANGED <<project_id, search_all, gcl_api_client, projects, discovery,
                 discoveries, libVars, args, outFile, reported, listVars, twoVars,
                 created>>

Next ==
  \/ CallQueryLogs
  \/ QueryLogs
  \/ ListProjects
  \/ CallExecuteQuery
  \/ PullFirst
  \/ PullNext
  \/ FetchPage
  \/ FetchFails
  \/ Stop

Spec == Init /\ [][Next]_vars

\* a library user who also lists logs, on a platform with few projects
InitLogs == InitFrom(SmallDiscoveryResults)

NextLogs ==
  \/ ListLogs
  \/ ListProjects
  \/ CallExecuteQuery
  \/ PullFirst
  \/ PullNext
  \/ FetchPage
  \/ FetchFails
  \/ Stop

SpecLogs == InitLogs /\ [][NextLogs]_vars

\* a library user who runs two queries on one instance
InitTwo == InitFrom(TwoDiscoveryResults)

NextTwo ==
  \/ ListProjects
  \/ \E i \in Invocations : CallTwo(i)
  \/ \E i \in Invocations : PullFirstTwo(i)
  \/ \E i \in Invocations : PullNextTwo(i)
  \/ \E i \in Invocations : FetchPageTwo(i)
  \/ \E i \in Invocations : FetchFailsTwo(i)
  \/ \E i \in Invocations : StopTwo(i)

SpecTwo == InitTwo /\ [][NextTwo]_vars

-----------------------------------------------------------------------------
(* Definitions the properties are stated with *)

Ceil(n, d) == (n + d - 1) \div d

RECURSIVE ConcatNames(_)
\* the resourceNames of the submitted batches, one after the other
ConcatNames(bs) ==
  IF bs = << >> THEN << >>
  ELSE ConcatNames(SubSeq(bs, 1, Len(bs) - 1)) \o bs[Len(bs)].resourceNames

IsPrefix(s, t) == Len(s) <= Len(t) /\ s = SubSeq(t, 1, Len(s))

\* the entries a logged page request delivered
EntriesOf(f) ==
  IF f.ok /\ "entries" \in DOMAIN f.response THEN f.response.entries ELSE << >>

RECURSIVE Flatten(_)
\* the entries of the logged pages, in request order and within-page order
Flatten(log) ==
  IF log = << >> THEN << >>
  ELSE Flatten(SubSeq(log, 1, Len(log) - 1)) \o EntriesOf(log[Len(log)])

\* the body of ExecuteQuery has run: the consumer called next() at least once
Started == pulls > 0

\* the discovered projects whose lifecycle state is exactly ACTIVE
ActiveIds ==
  { discovery[i].projectId : i \in { j \in DOMAIN discovery :
      "lifecycleState" \in DOMAIN discovery[j]
        /\ discovery[j].lifecycleState = "ACTIVE" } }

\* the elements of a sequence
Range(s) == { s[i] : i \in DOMAIN s }

-----------------------------------------------------------------------------
(* C1: the resolved identifier list of length N is submitted in            *)
(* ceil(N/50) batches; every batch is non-empty and holds at most 50       *)
(* identifiers; the batches, concatenated in submission order, are the     *)
(* list itself (a prefix of it while the query is still running).          *)
C1_Batching ==
  /\ \A i \in DOMAIN batches : Len(batches[i].resourceNames) \in 1..BatchSize
  /\ IsPrefix(ConcatNames(batches), project_ids)
  /\ Len(batches) <= Ceil(Len(project_ids), BatchSize)
  /\ genPc = "done" =>
       /\ Len(batches) = Ceil(Len(project_ids), BatchSize)
       /\ ConcatNames(batches) = project_ids

C1_Witness ==
  /\ genPc = "done"
  /\ Len(project_ids) > 2 * BatchSize
  /\ Len(project_ids) % BatchSize # 0
  /\ Len(batches) = 3

-----------------------------------------------------------------------------
TwoBatchQuery == Started /\ Ceil(Len(project_ids), BatchSize) = 2

PulledOneAndStopped == genPc = "closed" /\ pulls = 1 /\ Len(output) = 1

(* C2, as claimed: in a two-batch query a consumer that pulls the first    *)
(* element and stops has caused at most the first page request of one      *)
(* batch, and no request for the second batch.                             *)
C2_AtMostOneFirstPageRequest ==
  (TwoBatchQuery /\ PulledOneAndStopped) =>
     /\ Len(fetches) <= 1
     /\ \A i \in DOMAIN fetches : fetches[i].batch = 1 /\ fetches[i].page = 1

(* C2, amended: in a two-batch query, once the consumer has pulled one     *)
(* element and no more, the last request issued is the one whose page      *)
(* supplied that element and every page requested before it held no entry; *)
(* so when the first page of the first batch holds an entry, that request  *)
(* is the only one and no request for the second batch is issued.          *)
C2_NoRequestPastFirstElement ==
  (TwoBatchQuery /\ pulls = 1 /\ Len(output) = 1) =>
     LET last == fetches[Len(fetches)]
     IN  /\ fetches # << >>
         /\ EntriesOf(last) # << >>
         /\ output[1] = EntriesOf(last)[1]
         /\ \A i \in 1..(Len(fetches) - 1) :
              fetches[i].ok /\ EntriesOf(fetches[i]) = << >>
         /\ Len(batches) = last.batch
         /\ EntriesOf(fetches[1]) # << >> => (Len(fetches) = 1 /\ Len(batches) = 1)

C2_Witness ==
  /\ TwoBatchQuery /\ PulledOneAndStopped
  /\ Len(fetches) = 1 /\ Len(batches) = 1

-----------------------------------------------------------------------------
(* C3: a failed request ends the sequence there: it is the last request    *)
(* issued (no retry, no later batch), and the consumer that gets the error *)
(* has received exactly the entries of the pages fetched before it, in     *)
(* page order and within-page order.                                       *)
C3_AbortAtFailure ==
  /\ \A i \in DOMAIN fetches :
       ~fetches[i].ok => (i = Len(fetches) /\ genPc = "error")
  /\ genPc = "error" =>
       /\ fetches # << >> /\ ~fetches[Len(fetches)].ok
       /\ output = Flatten(fetches)
       /\ Len(batches) = fetches[Len(fetches)].batch

\* batch 1 answers with pages of 3 and 2 entries, batch 2 fails
C3_Witness ==
  /\ genPc = "error"
  /\ Len(fetches) = 3
  /\ fetches[1].batch = 1 /\ Len(EntriesOf(fetches[1])) = 3
  /\ fetches[2].batch = 1 /\ Len(EntriesOf(fetches[2])) = 2
  /\ fetches[3].batch = 2 /\ ~fetches[3].ok
  /\ output = EntriesOf(fetches[1]) \o EntriesOf(fetches[2])
  /\ Len(output) = 5

-----------------------------------------------------------------------------
(* C4: in all-scopes mode every identifier of every submitted batch is     *)
(* projects/<id> of a discovered project whose lifecycle state is exactly  *)
(* ACTIVE; no ACTIVE project is submitted twice, and a query that ran to   *)
(* its end has submitted every ACTIVE project exactly once.                *)
C4_OnlyActiveScopes ==
  search_all =>
    LET names == ConcatNames(batches)
        ids == { names[k][2] : k \in DOMAIN names }
    IN  /\ \A k \in DOMAIN names : names[k] = <<"projects", names[k][2]>>
        /\ ids \subseteq ActiveIds
        /\ Cardinality(ids) = Len(names)
        /\ genPc = "done" => ids = ActiveIds

C4_Witness ==
  /\ search_all /\ genPc = "done"
  /\ Len(batches) = 2
  /\ Cardinality(ActiveIds) > BatchSize
  /\ Cardinality(ActiveIds) < Len(discovery)

-----------------------------------------------------------------------------
(* C5: what the consumer has received is always a prefix of the entries of *)
(* the fetched pages taken batch by batch, page by page, entry by entry,   *)
(* and is all of them when the query ran to its end without a failure; a   *)
(* page without 'entries' adds nothing and ends nothing.                   *)
C5_OutputIsConcatenation ==
  /\ IsPrefix(output, Flatten(fetches))
  /\ \A i \in 1..(Len(fetches) - 1) : fetches[i].batch <= fetches[i + 1].batch
  /\ genPc = "done" => output = Flatten(fetches)

C5_Witness ==
  /\ genPc = "done"
  /\ Len(batches) = 2
  /\ \E i \in DOMAIN fetches : "entries" \notin DOMAIN fetches[i].response
  /\ \E i \in DOMAIN fetches : fetches[i].page = 2 /\ Len(EntriesOf(fetches[i])) > 1
  /\ \E i \in DOMAIN fetches : fetches[i].batch = 2 /\ Len(EntriesOf(fetches[i])) > 1
  /\ output = Flatten(fetches)

-----------------------------------------------------------------------------
(* C6: a single-scope query submits exactly one batch, holding the one     *)
(* identifier projects/<project_id>, however many projects the platform    *)
(* lists and whatever list is cached; it never runs scope discovery.       *)
C6_SingleScopeOneBatch ==
  ~search_all =>
    /\ \A i \in DOMAIN discoveries : discoveries[i] # "ExecuteQuery"
    /\ Len(batches) = (IF Started THEN 1 ELSE 0)
    /\ \A b \in DOMAIN batches :
         batches[b].resourceNames = << <<"projects", project_id>> >>

C6_Witness ==
  /\ ~search_all /\ genPc = "done"
  /\ discoveries = <<"caller">>
  /\ Cardinality(ActiveIds) > BatchSize
  /\ Len(batches) = 1
  /\ Len(fetches) = 2

-----------------------------------------------------------------------------
\* the picture YYYY-MM-DDTHH:MM:SSZ
MatchesPicture(s) ==
  /\ Len(s) = 20
  /\ \A i \in {1, 2, 3, 4, 6, 7, 9, 10, 12, 13, 15, 16, 18, 19} : IsDigit(s[i])
  /\ s[5] = "-" /\ s[8] = "-" /\ s[11] = "T"
  /\ s[14] = ":" /\ s[17] = ":" /\ s[20] = "Z"

Malformed(s) == s # << >> /\ ~MatchesPicture(s)

QueryLogsEnded == cliPc \notin {"none", "called"}

(* C7, as claimed: QueryLogs given a start or end that does not match      *)
(* YYYY-MM-DDTHH:MM:SSZ ends at the validation, with no discovery request  *)
(* and no log list request sent.                                           *)
C7_MalformedFailsValidation ==
  (QueryLogsEnded /\ (Malformed(args.start) \/ Malformed(args.end))) =>
     /\ cliPc = "SystemExit"
     /\ discoveries = << >> /\ batches = << >> /\ fetches = << >>

-----------------------------------------------------------------------------
\* the positions of s where a word starts, and where one ends
WordStarts(s) == { i \in DOMAIN s : s[i] # " " /\ (i = 1 \/ s[i - 1] = " ") }

WordEnds(s) == { i \in DOMAIN s : s[i] # " " /\ (i = Len(s) \/ s[i + 1] = " ") }

\* the k-th smallest element of a set of numbers
Nth(S, k) == CHOOSE i \in S : Cardinality({ j \in S : j < i }) = k - 1

\* the words of s: its maximal runs of characters other than the space
Tokens(s) ==
  [k \in 1..Cardinality(WordStarts(s)) |->
     SubSeq(s, Nth(WordStarts(s), k), Nth(WordEnds(s), k))]

TokAnd == <<"A", "N", "D">>

\* the pieces that are given, in the order start, end, caller filter
Pieces(a) ==
  (IF a.start # << >> THEN <<StrTimestampGe \o a.start \o <<"\"">>>> ELSE << >>)
    \o (IF a.end # << >> THEN <<StrTimestampLe \o a.end \o <<"\"">>>> ELSE << >>)
    \o (IF a.filter # << >> THEN <<a.filter>> ELSE << >>)

RECURSIVE JoinAnd(_)
\* the words of the pieces with one AND between neighbours
JoinAnd(ps) ==
  IF ps = << >> THEN << >>
  ELSE IF Len(ps) = 1 THEN Tokens(ps[1])
  ELSE Tokens(ps[1]) \o <<TokAnd>> \o JoinAnd(Tail(ps))

ExampleArgs == [start |-> TsStart, end |-> TsEnd, filter |-> FilterSeverity]

ExampleFilter ==
  <<"t", "i", "m", "e", "s", "t", "a", "m", "p", ">", "=", "\"", "2", "0", "2", "1", "-", "0", "1", "-", "0", "1", "T", "0", "0", ":", "0", "0", ":", "0", "0", "Z", "\"", " ",
    "A", "N", "D", " ", "t", "i", "m", "e", "s", "t", "a", "m", "p", "<", "=", "\"", "2", "0", "2", "1", "-", "0", "1", "-", "0", "2", "T", "0", "0", ":", "0", "0", ":", "0", "0", "Z", "\"", " ",
    "A", "N", "D", " ", "s", "e", "v", "e", "r", "i", "t", "y", "=", "E", "R", "R", "O", "R">>

(* C8: the filter QueryLogs assembles is, word for word, the given pieces  *)
(* in the order start bound, end bound, caller filter with exactly one AND *)
(* between neighbours and none at either end, and is blank when no piece   *)
(* is given; for the example arguments it is the example string.           *)
C8_FilterAssembly ==
  cliPc = "ValueError" =>
    /\ Tokens(cliFilter) = JoinAnd(Pieces(args))
    /\ args = ExampleArgs => cliFilter = ExampleFilter

C8_Witness ==
  /\ cliPc = "ValueError"
  /\ args = ExampleArgs
  /\ cliFilter = ExampleFilter

C8_WitnessStartOnly ==
  /\ cliPc = "ValueError"
  /\ args.start # << >> /\ args.end = << >> /\ args.filter = << >>
  /\ cliFilter # << >>

-----------------------------------------------------------------------------
(* C9: in all-scopes mode with no ACTIVE project discovered, the query     *)
(* ends at the first next() with nothing yielded, no error, no batch       *)
(* submitted and no page requested.                                        *)
C9_NoScopesEmptyResult ==
  (search_all /\ ActiveIds = {} /\ Started) =>
     /\ genPc = "done"
     /\ output = << >>
     /\ batches = << >>
     /\ fetches = << >>

C9_Witness ==
  /\ search_all /\ ActiveIds = {} /\ genPc = "done"
  /\ Len(discovery) >= BatchSize
  /\ pulls = 1

-----------------------------------------------------------------------------
(* C10, as claimed: QueryLogs with valid arguments appends one record per  *)
(* streamed entry to the output file, in stream order, and then reports    *)
(* the file name.                                                          *)
C10_ResultPersisted ==
  (QueryLogsEnded /\ Validated(args)) =>
     /\ reported
     /\ outFile = output

-----------------------------------------------------------------------------
(* C11, as claimed: ListLogs on an instance whose search_all is not set    *)
(* sends one logs list request, with parent projects/<project_id>, and     *)
(* returns the logNames of every page of the response, in order, whatever  *)
(* was called on the instance before.                                      *)
C11_ListLogsOfConfiguredProject ==
  (listPc = "returned" /\ ~search_all) =>
     /\ Len(logRequests) = 1
     /\ logRequests[1].parent = <<"projects", project_id>>
     /\ logs = CollectLogNames(logRequests[1].pages)

-----------------------------------------------------------------------------
\* an instance nothing was called on, with a frame not yet made
FreshInstance ==
  NotCalled @@ [client |-> FALSE, projects |-> << >>, created |-> 0]

\* one event of an invocation that is the only one on its instance; an event
\* that cannot happen where the invocation is leaves it "diverged"
AloneStep(st, e) ==
  CASE e.kind = "call" /\ st.pc = "none" ->
         [st EXCEPT !.pc = "created", !.qfilter = e.qfilter]
    [] e.kind = "pull" /\ st.pc = "created" -> Begin(st)
    [] e.kind = "pull" /\ st.pc = "suspended" -> Run(st)
    [] e.kind = "page" /\ st.pc = "fetch" ->
         Run([st EXCEPT !.page = e.response, !.pageNo = @ + 1, !.idx = 0])
    [] e.kind = "fail" /\ st.pc = "fetch" -> [st EXCEPT !.pc = PcAfterFailure]
    [] e.kind = "stop" /\ st.pc \in {"created", "suspended"} ->
         [st EXCEPT !.pc = "closed"]
    [] OTHER -> [st EXCEPT !.pc = "diverged"]

RECURSIVE Alone(_)
\* the invocation consumed alone, on a fresh instance, with the same calls of
\* its consumer and the same answers of the platform
Alone(tr) ==
  IF tr = << >> THEN FreshInstance
  ELSE AloneStep(Alone(SubSeq(tr, 1, Len(tr) - 1)), tr[Len(tr)])

\* the page answers an invocation has received
PagesOf(tr) == SelectSeq(tr, LAMBDA e : e.kind = "page")

(* C12: two invocations of ExecuteQuery on one instance, consumed in any    *)
(* interleaving of next() calls under an unchanging discovery result, each  *)
(* hold their own scope list and batch position: at every point the frame   *)
(* of each (the scopes it resolved, the request bodies it submitted, the    *)
(* page it is at, the entries it yielded, where it stands) is the frame it  *)
(* has when it is consumed alone with the same answers, and the client      *)
(* handle of the instance is created at most once.                          *)
C12_InvocationsIndependent ==
  /\ \A i \in Invocations : gens[i] = Local(Alone(traces[i]))
  /\ created <= 1

\* both invocations stand in their second batch, each having yielded entries
\* of its first, with different filters, both having run discovery
C12_Witness ==
  /\ \A i \in Invocations :
       /\ gens[i].pc = "suspended"
       /\ Len(gens[i].batches) = 2
       /\ gens[i].x = BatchSize
       /\ Len(PagesOf(traces[i])) >= 2
       /\ Len(gens[i].output) = Len(PagesOf(traces[i]))
  /\ gens["a"].qfilter # gens["b"].qfilter
  /\ Len(discoveries) = 2
  /\ created = 1

=============================================================================
